---- MODULE Spec2Model ----
(***************************************************************************)
(* Model of src/datastructure/hashtable.rs: an open-addressing hash table  *)
(* with linear probing (HashTable<usize, Value>) and the djb2 hash of      *)
(* String keys.                                                            *)
(*                                                                         *)
(* A table value is a record [cells, taken_count, status, extend_calls]:   *)
(* cells and taken_count are the fields of the struct; status is "ok",     *)
(* "panic" (an assert! failed) or "hang" (the while loop of insert never   *)
(* ends); extend_calls counts the entries into extend.  Rust indexes       *)
(* cells from 0, the sequences here from 1, hence cells[index + 1].        *)
(***************************************************************************)
EXTENDS Integers, Sequences, FiniteSets, TLC

\* ---------------------------------------------------------------- bounds
\* The keys 1..MaxFiller are inserted in ascending order (see Callable).
MaxFiller == 8
\* Besides its own value, a hot key is given the values 100..99+MaxShared.
MaxShared == 1
\* The public extend is only called while the grown array fits this length.
MaxCapacity == 47
\* Longest byte string hashed.
MaxLen == 4
\* Width in bits of the accumulator of the String hash (usize).
W == 20

\* ------------------------------------------------------------- constants
INITIAL_CAPACITY == 11
DJB2_SEED == 5381

None == -1

\* Keys inserted at any time, in any order.  With 11 slots 10 and 21 share the
\* last slot 10, so the probe of the later one wraps around to slot 0, the
\* home of 0, and 23 shares slot 1 with the filler 1; with 23 slots 0 and 23
\* share slot 0.
FreeKeys == {0, 10, 21, 23}
Fillers == 1..MaxFiller
Keys == Fillers \cup FreeKeys
\* The keys of the fill scenario: capacity + 1 distinct keys, in any order.
FillKeys == 0..INITIAL_CAPACITY
AllKeys == Keys \cup FillKeys
\* Keys whose value the callers change.
HotKeys == {21, 23}
OwnValue(k) == k + 1
Inputs == {<<k, OwnValue(k)>> : k \in Keys} \cup (HotKeys \X (100..(99 + MaxShared)))
\* What the callers write through the handle of get_mut.
Writes == HotKeys \X {99}

Bytes == {0, 97, 120, 255}

VARIABLES cells, taken_count, status, extend_calls,
          stored, fresh, last, reinserts,
          text, digest

tvars == <<cells, taken_count, status, extend_calls>>
gvars == <<stored, fresh, last, reinserts>>
hvars == <<text, digest>>
vars == <<cells, taken_count, status, extend_calls, stored, fresh, last, reinserts, text, digest>>

\* ------------------------------------------------------------------ hash
RECURSIVE Pow2(_)
Pow2(n) == IF n = 0 THEN 1 ELSE 2 * Pow2(n - 1)

\* usize << n: the n high bits are shifted out, the rest moves up.
shl(x, n) == (x % Pow2(W - n)) * Pow2(n)

\* usize::wrapping_add
wrapping_add(a, b) == (a + b) % Pow2(W)

\* The loop body when it forgets to add the accumulator to its shift.
hash_step_times_32(result, c) == wrapping_add(shl(result, 5), c)

\* One iteration of the loop of <String as Hashable>::hash.
hash_step(result, c) == wrapping_add(wrapping_add(shl(result, 5), result), c)

RECURSIVE hash_bytes(_, _, _)
hash_bytes(s, i, result) ==
  IF i > Len(s) THEN result
  ELSE hash_bytes(s, i + 1, hash_step(result, s[i]))

\* <String as Hashable>::hash
hash_String(s) == hash_bytes(s, 1, DJB2_SEED)

\* <usize as Hashable>::hash
hash(key) == key

\* ----------------------------------------------------------------- table
\* HashCell::default(): usize and the value type default to 0, bool to false.
DefaultCell == [key |-> 0, value |-> 0, taken |-> FALSE]

\* HashTable::new
new == [cells |-> [i \in 1..INITIAL_CAPACITY |-> DefaultCell],
        taken_count |-> 0, status |-> "ok", extend_calls |-> 0]

\* The for loop of get_index when it looks at the home slot only.
get_index_loop_home_only(cs, key, index, left) == index

\* The for loop of get_index: the index at which it stops, after at most
\* `left` more iterations.
RECURSIVE get_index_loop(_, _, _, _)
get_index_loop(cs, key, index, left) ==
  IF left = 0 THEN index
  ELSE IF ~cs[index + 1].taken THEN index
  ELSE IF cs[index + 1].key = key THEN index
  ELSE get_index_loop(cs, key, (index + 1) % Len(cs), left - 1)

\* The for loop of get_index: the iterations left when it stops; 0 when all
\* Len(cs) iterations ran without a break.
RECURSIVE get_index_left(_, _, _, _)
get_index_left(cs, key, index, left) ==
  IF left = 0 THEN 0
  ELSE IF ~cs[index + 1].taken THEN left
  ELSE IF cs[index + 1].key = key THEN left
  ELSE get_index_left(cs, key, (index + 1) % Len(cs), left - 1)

\* get_index when its final test forgets to compare the key.
get_index_any_key(cs, key) ==
  LET index == get_index_loop(cs, key, hash(key) % Len(cs), Len(cs))
  IN IF cs[index + 1].taken THEN index ELSE None

\* HashTable::get_index
get_index(cs, key) ==
  LET index == get_index_loop(cs, key, hash(key) % Len(cs), Len(cs))
  IN IF cs[index + 1].taken /\ cs[index + 1].key = key THEN index ELSE None

\* HashTable::get
get(cs, key) ==
  LET index == get_index(cs, key)
  IN IF index # None THEN cs[index + 1].value ELSE None

\* get_mut when it hands out the value of the key's home slot.
get_mut_write_home(t, key, w) ==
  LET index == get_index(t.cells, key)
  IN IF index # None THEN [t EXCEPT !.cells[(hash(key) % Len(t.cells)) + 1].value = w]
     ELSE t

\* HashTable::get_mut followed by a write of w through the handle.
get_mut_write(t, key, w) ==
  LET index == get_index(t.cells, key)
  IN IF index # None THEN [t EXCEPT !.cells[index + 1].value = w] ELSE t

\* The while loop of insert when it is left out: the home slot is used as is.
probe_home_only(cs, index, left) == index

\* The while loop of insert: the first untaken index from `index` on, or None
\* when the loop never ends (every one of the Len(cs) slots is taken).
RECURSIVE probe(_, _, _)
probe(cs, index, left) ==
  IF left = 0 THEN None
  ELSE IF cs[index + 1].taken THEN probe(cs, (index + 1) % Len(cs), left - 1)
  ELSE index

RECURSIVE insert(_, _, _)
RECURSIVE extend(_)
RECURSIVE extend_loop(_, _, _)
RECURSIVE extend_loop_short(_, _, _)

\* The else branch of insert when it forgets to count the new entry.
insert_new_uncounted(t, key, new_value) ==
  IF ~(t.taken_count < Len(t.cells)) THEN [t EXCEPT !.status = "panic"]
  ELSE LET index == probe(t.cells, hash(key) % Len(t.cells), Len(t.cells))
       IN IF index = None THEN [t EXCEPT !.status = "hang"]
          ELSE [t EXCEPT !.cells[index + 1] =
                             [key |-> key, value |-> new_value, taken |-> TRUE]]

\* The else branch of insert when its scan starts at slot 0, not at the home.
insert_new_from_zero(t, key, new_value) ==
  IF ~(t.taken_count < Len(t.cells)) THEN [t EXCEPT !.status = "panic"]
  ELSE LET index == probe(t.cells, 0, Len(t.cells))
       IN IF index = None THEN [t EXCEPT !.status = "hang"]
          ELSE [t EXCEPT !.cells[index + 1] =
                             [key |-> key, value |-> new_value, taken |-> TRUE],
                         !.taken_count = t.taken_count + 1]

\* The else branch of insert after the optional growth: assert, scan, store.
insert_new(t, key, new_value) ==
  IF ~(t.taken_count < Len(t.cells)) THEN [t EXCEPT !.status = "panic"]
  ELSE LET index == probe(t.cells, hash(key) % Len(t.cells), Len(t.cells))
       IN IF index = None THEN [t EXCEPT !.status = "hang"]
          ELSE [t EXCEPT !.cells[index + 1] =
                             [key |-> key, value |-> new_value, taken |-> TRUE],
                         !.taken_count = t.taken_count + 1]

\* insert when it grows a table that the new entry would fill.
insert_eager(t, key, new_value) ==
  IF t.status # "ok" THEN t
  ELSE IF get_index(t.cells, key) # None THEN get_mut_write(t, key, new_value)
  ELSE LET g == IF t.taken_count + 1 >= Len(t.cells) THEN extend(t) ELSE t
       IN IF g.status # "ok" THEN g ELSE insert_new(g, key, new_value)

\* insert when it counts an overwrite as a new entry.
insert_counts_overwrite(t, key, new_value) ==
  IF t.status # "ok" THEN t
  ELSE IF get_index(t.cells, key) # None
       THEN [get_mut_write(t, key, new_value) EXCEPT !.taken_count = t.taken_count + 1]
  ELSE LET g == IF t.taken_count >= Len(t.cells) THEN extend(t) ELSE t
       IN IF g.status # "ok" THEN g ELSE insert_new(g, key, new_value)

\* insert when it grows only a table that is more than full.
insert_grow_late(t, key, new_value) ==
  IF t.status # "ok" THEN t
  ELSE IF get_index(t.cells, key) # None THEN get_mut_write(t, key, new_value)
  ELSE LET g == IF t.taken_count > Len(t.cells) THEN extend(t) ELSE t
       IN IF g.status # "ok" THEN g ELSE insert_new(g, key, new_value)

\* insert when it tests for a full table before it looks the key up.
insert_grow_first(t, key, new_value) ==
  IF t.status # "ok" THEN t
  ELSE LET g == IF t.taken_count >= Len(t.cells) THEN extend(t) ELSE t
       IN IF g.status # "ok" THEN g
          ELSE IF get_index(g.cells, key) # None THEN get_mut_write(g, key, new_value)
          ELSE insert_new(g, key, new_value)

\* HashTable::insert
insert(t, key, new_value) ==
  IF t.status # "ok" THEN t
  ELSE IF get_index(t.cells, key) # None THEN get_mut_write(t, key, new_value)
  ELSE LET g == IF t.taken_count >= Len(t.cells) THEN extend(t) ELSE t
       IN IF g.status # "ok" THEN g ELSE insert_new(g, key, new_value)

\* The for loop of extend when it stops one cell early.
extend_loop_short(old, new_self, i) ==
  IF i >= Len(old) - 1 THEN new_self
  ELSE IF old[i + 1].taken
       THEN extend_loop_short(old, insert(new_self, old[i + 1].key, old[i + 1].value), i + 1)
       ELSE extend_loop_short(old, new_self, i + 1)

\* The for loop of extend, from old index i (0-based) on.
extend_loop(old, new_self, i) ==
  IF i >= Len(old) THEN new_self
  ELSE IF old[i + 1].taken
       THEN extend_loop(old, insert(new_self, old[i + 1].key, old[i + 1].value), i + 1)
       ELSE extend_loop(old, new_self, i + 1)

\* The table extend starts to fill when it merely doubles the array.
new_self_doubled(t) ==
  [cells |-> [i \in 1..(Len(t.cells) * 2) |-> DefaultCell],
   taken_count |-> 0, status |-> "ok", extend_calls |-> t.extend_calls + 1]

\* The table extend starts to fill.
new_self_of(t) ==
  [cells |-> [i \in 1..(Len(t.cells) * 2 + 1) |-> DefaultCell],
   taken_count |-> 0, status |-> "ok", extend_calls |-> t.extend_calls + 1]

\* HashTable::extend
extend(t) ==
  IF t.status # "ok" THEN t
  ELSE IF ~(Len(t.cells) > 0) THEN [t EXCEPT !.status = "panic"]
  ELSE extend_loop(t.cells, new_self_of(t), 0)

\* What one reinsert of extend's loop does: whether it found the key in the
\* new table, whether the new table was full, and the counts afterwards.
reinsert_record(pre, key, post) ==
  [found |-> get_index(pre.cells, key) # None,
   full |-> pre.taken_count >= Len(pre.cells),
   taken_count |-> post.taken_count,
   taken_slots |-> Cardinality({j \in 1..Len(post.cells) : post.cells[j].taken}),
   capacity |-> Len(post.cells),
   status |-> post.status]

\* The reinserts of extend's loop in order, from old index i (0-based) on.
RECURSIVE extend_steps(_, _, _)
extend_steps(old, new_self, i) ==
  IF i >= Len(old) THEN <<>>
  ELSE IF old[i + 1].taken
       THEN LET post == insert(new_self, old[i + 1].key, old[i + 1].value)
            IN <<reinsert_record(new_self, old[i + 1].key, post)>>
               \o extend_steps(old, post, i + 1)
       ELSE extend_steps(old, new_self, i + 1)

\* ------------------------------------------------------------ the program
table == [cells |-> cells, taken_count |-> taken_count,
          status |-> status, extend_calls |-> extend_calls]

Adopt(t) ==
  /\ cells' = t.cells
  /\ taken_count' = t.taken_count
  /\ status' = t.status
  /\ extend_calls' = t.extend_calls

Init ==
  /\ cells = new.cells
  /\ taken_count = new.taken_count
  /\ status = new.status
  /\ extend_calls = new.extend_calls
  /\ stored = [k \in AllKeys |-> None]
  /\ fresh = TRUE
  /\ last = [op |-> "new", found |-> FALSE, grew |-> FALSE]
  /\ reinserts = <<>>
  /\ text = <<>>
  /\ digest = None

\* A caller calls insert(key, new_value).
Insert(key, new_value) ==
  LET found == get_index(cells, key) # None
      grew == ~found /\ taken_count >= Len(cells)
      t == insert(table, key, new_value)
  IN /\ status = "ok"
     /\ last' = [op |-> "insert", found |-> found, grew |-> grew]
     /\ fresh' = (fresh /\ ~found)
     /\ stored' = [stored EXCEPT ![key] = new_value]
     /\ Adopt(t)
     /\ reinserts' = IF grew THEN extend_steps(cells, new_self_of(table), 0) ELSE <<>>
     /\ UNCHANGED hvars

\* A caller takes the handle get_mut(key) and, when there is one, writes w.
GetMutWrite(key, w) ==
  LET found == get_index(cells, key) # None
  IN /\ status = "ok"
     /\ last' = [op |-> "get_mut", found |-> found, grew |-> FALSE]
     /\ fresh' = FALSE
     /\ stored' = IF found THEN [stored EXCEPT ![key] = w] ELSE stored
     /\ Adopt(get_mut_write(table, key, w))
     /\ reinserts' = <<>>
     /\ UNCHANGED hvars

\* A caller calls the public extend.
Extend ==
  /\ status = "ok"
  /\ Len(cells) * 2 + 1 <= MaxCapacity
  /\ last' = [op |-> "extend", found |-> FALSE, grew |-> TRUE]
  /\ fresh' = FALSE
  /\ Adopt(extend(table))
  /\ reinserts' = extend_steps(cells, new_self_of(table), 0)
  /\ UNCHANGED <<stored, hvars>>

\* The callers insert the filler keys in ascending order.
Callable(key) ==
  key \in Fillers => \A j \in Fillers : j < key => stored[j] # None

Next ==
  \/ \E in \in Inputs : Callable(in[1]) /\ Insert(in[1], in[2])
  \/ \E in \in Writes : GetMutWrite(in[1], in[2])
  \/ Extend

Spec == Init /\ [][Next]_vars

\* ------------------------------- distinct keys into a fresh table, any order
FillInsert(key) ==
  /\ stored[key] = None
  /\ Insert(key, OwnValue(key))

FillNext == \E key \in FillKeys : FillInsert(key)

FillSpec == Init /\ [][FillNext]_vars

\* ------------------------------------------------- the String hash alone
RECURSIVE StringsUpTo(_)
StringsUpTo(n) ==
  IF n = 0 THEN {<<>>}
  ELSE LET shorter == StringsUpTo(n - 1)
       IN shorter \cup {Append(s, b) : s \in shorter, b \in Bytes}

HashInit ==
  /\ cells = new.cells
  /\ taken_count = new.taken_count
  /\ status = new.status
  /\ extend_calls = new.extend_calls
  /\ stored = [k \in AllKeys |-> None]
  /\ fresh = TRUE
  /\ last = [op |-> "new", found |-> FALSE, grew |-> FALSE]
  /\ reinserts = <<>>
  /\ text \in StringsUpTo(MaxLen)
  /\ digest = None

\* A caller hashes the String key `text`.
HashCall ==
  /\ digest = None
  /\ digest' = hash_String(text)
  /\ UNCHANGED <<text, tvars, gvars>>

HashNext == HashCall

HashSpec == HashInit /\ [][HashNext]_vars

\* ------------------------------------------------------------ the claims
Capacity == Len(cells)
Home(key) == hash(key) % Len(cells)
Inserted == {k \in AllKeys : stored[k] # None}

\* C1: for every key inserted at least once, get returns the value most
\* recently stored for it, by insert or through the get_mut handle, whatever
\* collisions, wraparound probes and growth events came in between.
C1_GetReturnsLastStored ==
  /\ status = "ok"
  /\ \A k \in AllKeys : stored[k] # None => get(cells, k) = stored[k]

\* After a growth event, a key rewritten through the handle sits away from
\* its home slot and another key holds a value that insert overwrote.
C1_Witness ==
  /\ extend_calls >= 1
  /\ stored[23] = 99
  /\ get_index(cells, 23) \notin {None, Home(23)}
  /\ stored[21] = 100

\* C2: get and get_mut report absent for every key that was never inserted,
\* in every reachable state, a full table and colliding keys included.
C2_AbsentKeysAreAbsent ==
  \A k \in AllKeys :
    stored[k] = None =>
      /\ get(cells, k) = None
      /\ get_index(cells, k) = None
      /\ get_mut_write(table, k, 99) = table

\* The table is full, a key never inserted has a taken home slot, and the
\* probe of a stored key wrapped around the end of the array.
C2_Witness ==
  /\ taken_count = Capacity
  /\ \E k \in AllKeys : stored[k] = None /\ cells[Home(k) + 1].taken
  /\ \E k \in AllKeys : get_index(cells, k) # None /\ get_index(cells, k) < Home(k)

\* The slots of cs2 are those of cs1 but for the value held at index (0-based).
SameButValueAt(cs1, cs2, index) ==
  /\ Len(cs2) = Len(cs1)
  /\ \A i \in 1..Len(cs1) :
       /\ cs2[i].key = cs1[i].key
       /\ cs2[i].taken = cs1[i].taken
       /\ i # index + 1 => cs2[i].value = cs1[i].value

\* The step wrote the value recorded in stored' for key, a key the table
\* held, into key's slot and changed nothing else.
OverwriteInPlace(key) ==
  /\ stored' = [stored EXCEPT ![key] = stored'[key]]
  /\ \E index \in {get_index(cells, key)} :
       /\ index # None
       /\ SameButValueAt(cells, cells', index)
       /\ cells'[index + 1].value = stored'[key]
       /\ get_index(cells', key) = index
  /\ taken_count' = taken_count
  /\ extend_calls' = extend_calls
  /\ status' = "ok"

\* C3: insert(k, v) for a key already present overwrites the value in place
\* and leaves taken_count, capacity, every slot's key and taken flag and the
\* slot index of k unchanged, also in a full table, which does not grow.
C3_OverwriteKeepsTheFrame ==
  [][(last'.op = "insert" /\ last'.found) =>
       \E k \in Keys : OverwriteInPlace(k)]_vars

\* insert has just overwritten a value in a full table.
C3_Witness ==
  /\ last.op = "insert"
  /\ last.found
  /\ taken_count = Capacity
  /\ \E k \in HotKeys : stored[k] = 100

\* The table t2 maps every key as t1 does, holds as many entries, and has
\* 2 * capacity + 1 slots.
Rehashed(t1, t2) ==
  /\ t2.status = "ok"
  /\ \A k \in AllKeys : get(t2.cells, k) = get(t1.cells, k)
  /\ t2.taken_count = t1.taken_count
  /\ Len(t2.cells) = 2 * Len(t1.cells) + 1
  /\ t2.extend_calls = t1.extend_calls + 1

\* C4: every invocation of extend, by a caller or by insert, preserves the
\* mapping of every key (present keys keep their value, absent keys stay
\* absent) and taken_count, and makes the capacity 2 * old capacity + 1.
C4_ExtendPreservesTheMapping ==
  [][/\ (last'.op = "extend" /\ Extend) => Rehashed(table, table')
     /\ (last'.op = "insert" /\ last'.grew) => Rehashed(table, extend(table))]_vars

\* A caller has just extended, for the second time, a table that holds a
\* displaced key and rewritten values.
C4_Witness ==
  /\ last.op = "extend"
  /\ extend_calls = 2
  /\ Capacity = 4 * INITIAL_CAPACITY + 3
  /\ {0, 23} \subseteq Inserted
  /\ stored[23] = 99

\* C5, as claimed: inserting `capacity` (11) distinct keys into a fresh table
\* triggers exactly one growth event and the capacity becomes 2 * old + 1.
C5_GrowthAtCapacityKeys ==
  (fresh /\ taken_count = INITIAL_CAPACITY) =>
    (extend_calls = 1 /\ Capacity = 2 * INITIAL_CAPACITY + 1)

\* C5, amended: inserting `capacity` (11) distinct keys into a fresh table
\* triggers no growth event and leaves the capacity at 11; the insert of one
\* further distinct key triggers exactly one, and the capacity becomes
\* 2 * old + 1 = 23.
C5_GrowthAfterCapacityKeys ==
  fresh =>
    /\ taken_count <= INITIAL_CAPACITY =>
         (extend_calls = 0 /\ Capacity = INITIAL_CAPACITY)
    /\ taken_count > INITIAL_CAPACITY =>
         /\ taken_count = INITIAL_CAPACITY + 1
         /\ extend_calls = 1
         /\ Capacity = 2 * INITIAL_CAPACITY + 1
         /\ Capacity > INITIAL_CAPACITY

\* The insert of the 12th distinct key has just grown the table.
C5_Witness ==
  /\ fresh
  /\ taken_count = INITIAL_CAPACITY + 1
  /\ last.op = "insert"
  /\ last.grew

\* C6: inserting 12 pairwise distinct keys into new(), in any order, causes
\* exactly one growth event, during the 12th insert; afterwards capacity is
\* 23, taken_count is 12 and get returns the inserted value of every key.
C6_TwelveKeysGrowOnce ==
  LET n == Cardinality(Inserted)
  IN /\ status = "ok"
     /\ last.grew <=> n = 12
     /\ n < 12 => extend_calls = 0
     /\ n = 12 =>
          /\ extend_calls = 1
          /\ Capacity = 23
          /\ taken_count = 12
          /\ \A k \in Inserted : get(cells, k) = OwnValue(k)

\* All twelve keys are in: the last insert grew the table, reinserted the
\* eleven entries of the full array and stored its own.
C6_Witness ==
  /\ Inserted = FillKeys
  /\ last.grew
  /\ Len(reinserts) = INITIAL_CAPACITY
  /\ Capacity = 23

\* C7: a write of w through the handle of get_mut(k) for a present key k
\* changes only the value of k's slot, so that get(k) = w afterwards while
\* keys, taken flags, the other slots, taken_count and capacity stay; for an
\* absent key get_mut reports absent and nothing changes.
C7_HandleWriteKeepsTheFrame ==
  [][last'.op = "get_mut" =>
     \A in \in Writes :
       GetMutWrite(in[1], in[2]) =>
         LET index == get_index(cells, in[1])
         IN IF index # None
            THEN /\ SameButValueAt(cells, cells', index)
                 /\ get(cells', in[1]) = in[2]
                 /\ taken_count' = taken_count
                 /\ extend_calls' = extend_calls
                 /\ status' = "ok"
            ELSE /\ stored[in[1]] = None
                 /\ UNCHANGED tvars]_vars

\* A write through the handle has just changed the value of a key that sits
\* away from its home slot.
C7_Witness ==
  /\ last.op = "get_mut"
  /\ last.found
  /\ \E k \in HotKeys :
       /\ get(cells, k) = 99
       /\ get_index(cells, k) # Home(k)

\* The reference fold: acc0 = 5381, acc' = (acc * 33 + b) mod 2^W.
RECURSIVE djb2(_, _)
djb2(s, n) ==
  IF n = 0 THEN 5381 ELSE (djb2(s, n - 1) * 33 + s[n]) % Pow2(W)

\* The accumulator before byte i of s.
AccBefore(s, i) == hash_String(SubSeq(s, 1, i - 1))

\* C8: the String hash equals the djb2 fold over the W-bit accumulator, also
\* where the shift by 5 loses high bits, and hash("a") = 177670.
C8_HashIsDjb2 ==
  digest # None =>
    /\ digest = djb2(text, Len(text))
    /\ text = <<97>> => digest = 177670

\* A string was hashed whose accumulator had high bits for the shift to lose.
C8_Witness ==
  /\ digest # None
  /\ \E i \in 1..Len(text) : AccBefore(text, i) >= Pow2(W - 5)

TakenSlots(cs) == {i \in 1..Len(cs) : cs[i].taken}

\* C9: taken_count is the number of slots whose taken flag is set, hence at
\* most the capacity, in every state between operations and for the new
\* table after each reinsert inside extend.
C9_TakenCountCountsTakenSlots ==
  /\ taken_count = Cardinality(TakenSlots(cells))
  /\ taken_count <= Capacity
  /\ \A i \in 1..Len(reinserts) :
       /\ reinserts[i].taken_count = reinserts[i].taken_slots
       /\ reinserts[i].taken_count <= reinserts[i].capacity
       /\ reinserts[i].taken_count = i

\* An insert into a full table has just run extend over its eleven entries
\* and stored its own.
C9_Witness ==
  /\ last.op = "insert"
  /\ last.grew
  /\ Len(reinserts) = INITIAL_CAPACITY
  /\ taken_count = INITIAL_CAPACITY + 1

\* C10: no two distinct taken slots hold equal keys.
C10_KeysAreUnique ==
  \A i, j \in TakenSlots(cells) : cells[i].key = cells[j].key => i = j

\* After a growth event, insert has just overwritten a key while a key sits
\* away from its home slot in a table of more than eleven entries.
C10_Witness ==
  /\ extend_calls >= 1
  /\ last.op = "insert"
  /\ last.found
  /\ taken_count > INITIAL_CAPACITY
  /\ \E k \in Inserted : get_index(cells, k) # Home(k)

\* The number of probe steps from the home slot of key to index (0-based).
Distance(cs, key, index) ==
  (index + Len(cs) - (hash(key) % Len(cs))) % Len(cs)

\* Every slot that a probe for the key at index passes first is taken and
\* holds another key.
ProbePathTaken(cs, index) ==
  LET key == cs[index + 1].key
      home == hash(key) % Len(cs)
  IN \A d \in 0..(Distance(cs, key, index) - 1) :
       /\ cs[((home + d) % Len(cs)) + 1].taken
       /\ cs[((home + d) % Len(cs)) + 1].key # key

\* C11: for every taken slot i holding K, every slot on the wrapping probe
\* path from hash(K) mod capacity up to i is taken and holds another key, so
\* a probe for K reaches i within capacity steps before any untaken slot.
C11_ProbePathsAreTaken ==
  \A i \in TakenSlots(cells) :
    /\ ProbePathTaken(cells, i - 1)
    /\ Distance(cells, cells[i].key, i - 1) < Capacity
    /\ get_index(cells, cells[i].key) = i - 1

\* In a full array one key sits below its home slot, its probe having
\* wrapped around, and one key sits three or more steps past its home slot.
C11_Witness ==
  /\ taken_count = Capacity
  /\ \E i \in TakenSlots(cells) : i - 1 < Home(cells[i].key)
  /\ \E i \in TakenSlots(cells) : Distance(cells, cells[i].key, i - 1) >= 3

\* The lookup of key runs all `capacity` iterations of its loop.
Exhausts(cs, key) == get_index_left(cs, key, hash(key) % Len(cs), Len(cs)) = 0

\* C12, as claimed: whenever a lookup runs (in insert and in get_mut),
\* taken_count < capacity, and the lookup does not exhaust its probe steps.
C12_LookupsNeverExhaust ==
  [][last'.op \in {"insert", "get_mut"} =>
       /\ taken_count < Capacity
       /\ \A k \in Keys : stored'[k] # stored[k] => ~Exhausts(cells, k)]_vars

\* C12, amended: taken_count <= capacity, and a lookup runs all `capacity`
\* probe steps exactly when the table is full and the key is absent; the
\* test after the loop then reports absent.
C12_LookupsExhaustWhenFull ==
  /\ taken_count <= Capacity
  /\ \A k \in AllKeys :
       /\ Exhausts(cells, k) <=> (taken_count = Capacity /\ stored[k] = None)
       /\ Exhausts(cells, k) => get_index(cells, k) = None

\* get_mut has just looked up an absent key in a full table.
C12_Witness ==
  /\ last.op = "get_mut"
  /\ ~last.found
  /\ taken_count = Capacity
  /\ \E k \in HotKeys : Exhausts(cells, k)

\* The key the insert step was called with was not in the table.
InsertedKeyWasAbsent ==
  \E k \in Keys : stored'[k] # stored[k] /\ get_index(cells, k) = None

\* The insert step stored its pair: the key it changed in stored' maps to
\* that value afterwards.
PendingPairStored ==
  \E k \in Keys :
    /\ stored' = [stored EXCEPT ![k] = stored'[k]]
    /\ stored[k] = None
    /\ get(cells', k) = stored'[k]

\* C13: an insert triggers growth if and only if its key is absent and
\* taken_count >= capacity before it; it triggers at most one growth, and
\* after it the pair is stored, capacity is 2 * old capacity + 1 and
\* taken_count is old taken_count + 1.
C13_GrowthIffNewKeyInFullTable ==
  [][last'.op = "insert" =>
       /\ extend_calls' \in {extend_calls, extend_calls + 1}
       /\ extend_calls' = extend_calls + 1
            <=> (InsertedKeyWasAbsent /\ taken_count >= Capacity)
       /\ extend_calls' = extend_calls + 1 =>
            /\ status' = "ok"
            /\ PendingPairStored
            /\ Len(cells') = 2 * Capacity + 1
            /\ taken_count' = taken_count + 1
       /\ extend_calls' = extend_calls => Len(cells') = Capacity]_vars

\* The insert of a new key has just grown a full table, and the grown table
\* holds a value given by an overwriting insert.
C13_Witness ==
  /\ last.op = "insert"
  /\ last.grew
  /\ extend_calls = 1
  /\ Capacity = 2 * INITIAL_CAPACITY + 1
  /\ \E k \in HotKeys : stored[k] = 100

\* C14: every insert terminates: the forward scan of the non-overwriting
\* branch reaches an untaken slot within capacity steps, in every reachable
\* state and for the reinserts inside extend, and get_index stops within
\* capacity iterations.
C14_ScansTerminate ==
  /\ status # "hang"
  /\ \A i \in 1..Len(reinserts) : reinserts[i].status # "hang"
  /\ \A k \in AllKeys :
       /\ (get_index(cells, k) = None /\ taken_count < Capacity) =>
            probe(cells, Home(k), Capacity) \in 0..(Capacity - 1)
       /\ get_index_left(cells, k, Home(k), Capacity) \in 0..Capacity

\* An insert has just taken the last untaken slot of an array in which a
\* key sits five or more steps past its home slot.
C14_Witness ==
  /\ last.op = "insert"
  /\ ~last.found
  /\ ~last.grew
  /\ taken_count = Capacity
  /\ \E i \in TakenSlots(cells) : Distance(cells, cells[i].key, i - 1) >= 5

\* C15: no assertion fails: capacity > 0 whenever extend runs, and
\* taken_count < capacity just after the optional growth of a
\* non-overwriting insert, for callers' inserts and for extend's reinserts.
C15_AssertionsHold ==
  /\ status # "panic"
  /\ Capacity > 0
  /\ \A i \in 1..Len(reinserts) :
       /\ reinserts[i].status # "panic"
       /\ reinserts[i].capacity > 0
       /\ reinserts[i].taken_count - 1 < reinserts[i].capacity
  /\ taken_count >= Capacity =>
       LET g == extend(table)
       IN g.status = "ok" /\ g.taken_count < Len(g.cells)

\* The insert of a new key into a full table has just run extend and passed
\* both assertions; the grown table holds all four colliding keys.
C15_Witness ==
  /\ last.op = "insert"
  /\ last.grew
  /\ status = "ok"
  /\ Len(reinserts) = Capacity \div 2
  /\ FreeKeys \subseteq Inserted

\* C16: entries are never removed: a key that get finds is found in every
\* later state; taken_count and capacity never decrease; and while the slot
\* array is not replaced by a growth, a taken slot stays taken and keeps its
\* key.
C16_EntriesAreNeverRemoved ==
  [][\/ cells' = cells /\ taken_count' = taken_count
     \/ /\ \A k \in AllKeys : get(cells, k) # None => get(cells', k) # None
        /\ taken_count' >= taken_count
        /\ Len(cells') >= Len(cells)
        /\ extend_calls' = extend_calls =>
             /\ Len(cells') = Len(cells)
             /\ \A i \in TakenSlots(cells) :
                  cells'[i].taken /\ cells'[i].key = cells[i].key]_vars

\* Every key of the callers is still found after two growth events.
C16_Witness ==
  /\ extend_calls = 2
  /\ \A k \in Keys : get(cells, k) # None
  /\ \E k \in HotKeys : stored[k] = 99

\* The insert step was called with key: it touched the mapping of no other
\* key, and when key was new and the table did not grow, it filled one
\* untaken slot and left every other slot as it was.
InsertTouchesOnly(key) ==
  /\ stored' = [stored EXCEPT ![key] = stored'[key]]
  /\ stored'[key] # None
  /\ \/ cells' = cells
     \/ \A k2 \in AllKeys \ {key} : get(cells', k2) = get(cells, k2)
  /\ (get_index(cells, key) = None /\ extend_calls' = extend_calls) =>
       /\ Len(cells') = Len(cells)
       /\ LET changed == {i \in 1..Len(cells) : cells'[i] # cells[i]}
          IN /\ Cardinality(changed) = 1
             /\ \A i \in changed :
                  /\ ~cells[i].taken
                  /\ cells'[i] = [key |-> key, value |-> stored'[key], taken |-> TRUE]

\* C17: insert(k, v) does not change get(k') for any other key k', when it
\* overwrites, when it stores a new key without growth and when it stores a
\* new key after growth; without growth a new key changes exactly one slot,
\* untaken before, and no other.
C17_InsertLeavesOtherKeys ==
  [][last'.op = "insert" => \E k \in Keys : InsertTouchesOnly(k)]_vars

\* Insert has just stored a new key, without growth, in a grown table in
\* which 23 sits away from its home slot and 21 holds a rewritten value.
C17_Witness ==
  /\ last.op = "insert"
  /\ ~last.found
  /\ ~last.grew
  /\ extend_calls >= 1
  /\ get_index(cells, 23) \notin {None, Home(23)}
  /\ stored[23] = OwnValue(23)
  /\ stored[21] = 99

\* C18: while extend reinserts the old entries into the new array of
\* 2 * old capacity + 1 slots, no reinsert finds its key (the overwrite
\* branch) and none meets a full new table (a nested extend); the adopted
\* table has 2 * old capacity + 1 slots and the old taken_count.
C18_ReinsertsAreFreshAndFit ==
  [][extend_calls' # extend_calls =>
       /\ extend_calls' = extend_calls + 1
       /\ Len(reinserts') = taken_count
       /\ \A i \in 1..Len(reinserts') :
            /\ ~reinserts'[i].found
            /\ ~reinserts'[i].full
            /\ reinserts'[i].status = "ok"
            /\ reinserts'[i].capacity = 2 * Capacity + 1
            /\ reinserts'[i].taken_count = i
            /\ reinserts'[i].taken_count < reinserts'[i].capacity
       /\ Len(cells') = 2 * Capacity + 1
       /\ taken_count' = taken_count + (IF last'.op = "insert" THEN 1 ELSE 0)]_vars

\* A caller has just extended the 23 slots that held all twelve keys.
C18_Witness ==
  /\ last.op = "extend"
  /\ Len(reinserts) = Cardinality(Keys)
  /\ Capacity = 2 * (2 * INITIAL_CAPACITY + 1) + 1
====
